---- MODULE Spec2Model ----
(***************************************************************************)
(* A model of blink-search (src/src/main.rs, src/src/config.rs): the path  *)
(* normalizer, the candidate source, the fzf filter driver (fzf_open), the *)
(* location picker (fzf_menu) and the resolver / menu loop of main.        *)
(*                                                                         *)
(* Strings are sequences of one-character strings, so that trimming,       *)
(* prefix stripping, quoting and substring search are computed as the code *)
(* computes them.  Characters that TLA+ cannot write are named: "<NUL>",   *)
(* "<LF>", "<HT>", "<BEL>", "<FF>" (a byte that is not UTF-8) and          *)
(* "<FFFD>" (char::REPLACEMENT_CHARACTER).                                 *)
(***************************************************************************)
EXTENDS Integers, Sequences, FiniteSets, TLC

VARIABLES
    config,         \* Config.locations: the ordered map, a sequence of entries
    args,           \* the parsed command line (struct Args)
    pc,             \* the position of main
    location_name,  \* main's `location_name` (an Option: unset before resolution)
    menu_query,     \* the `query` of the running fzf_menu call
    menu_caller,    \* where fzf_menu was called from: "resolve" or "loop"
    action,         \* fzf_open's `action: Option<OpenAction>`
    fzf_lines,      \* the lines fzf_open has read from the filter's stdout
    ret,            \* fzf_open's `ret`: the filter's exit code, once awaited
    result,         \* what the last fzf_open call returned (None while running)
    outcome,        \* how the process ended: "running", "ok", "err", "panic", "exit"
    error,          \* the message of the error main ended with
    spawned,        \* every subprocess spawned so far, in order
    iter_base,      \* Len(spawned) when the current loop iteration began
    log,            \* the calls and returns of fzf_open, fzf_menu and open_folder
    menus,          \* how many times the loop took the Menu branch
    live,           \* the indices in `spawned` of the subprocesses still running
    picker_end,     \* how the filter of the last picker call ended: the index of the line
                    \* the user accepted (or 0) and the exit status
    stdin,          \* the bytes the normalizer has still to read
    input,          \* the bytes the normalizer was given
    stdout          \* the lines printed so far

vars == <<config, args, pc, location_name, menu_query, menu_caller, action,
          fzf_lines, ret, result, outcome, error, spawned, iter_base, log, menus,
          live, picker_end, stdin, input, stdout>>

----------------------------------------------------------------------------
(* Bounds of the model.                                                    *)

\* The longest location map (number of configured locations).
MaxLocations == 2
\* The most Menu transitions one run of the loop takes.
MaxMenus == 2
\* The longest byte sequence fed to the normalizer.
MaxInputLen == 4

----------------------------------------------------------------------------
(* Option values.                                                          *)

None == [some |-> FALSE]
Some(x) == [some |-> TRUE, v |-> x]

----------------------------------------------------------------------------
(* Characters and strings.                                                 *)

NUL == "<NUL>"
LF == "<LF>"
HT == "<HT>"
BEL == "<BEL>"
BadByte == "<FF>"
REPLACEMENT_CHARACTER == "<FFFD>"

UpperCase == <<"A","B","C","D","E","F","G","H","I","J","K","L","M",
               "N","O","P","Q","R","S","T","U","V","W","X","Y","Z">>
LowerCase == <<"a","b","c","d","e","f","g","h","i","j","k","l","m",
               "n","o","p","q","r","s","t","u","v","w","x","y","z">>
Digits == {"0","1","2","3","4","5","6","7","8","9"}

\* char::to_lowercase, on the ASCII letters.
LowerChar(c) ==
    IF \E i \in DOMAIN UpperCase : UpperCase[i] = c
    THEN LowerCase[CHOOSE i \in DOMAIN UpperCase : UpperCase[i] = c]
    ELSE c

\* str::to_lowercase.
ToLowercase(s) == [i \in DOMAIN s |-> LowerChar(s[i])]

\* char::is_whitespace (the White_Space property) on the model's characters.
IsWhitespace(c) == c \in {" ", HT, LF}

\* char::is_control (general category Cc) on the model's characters.
IsControl(c) == c \in {NUL, LF, HT, BEL}

StartsWith(s, p) == Len(s) >= Len(p) /\ SubSeq(s, 1, Len(p)) = p
EndsWith(s, p) == Len(s) >= Len(p) /\ SubSeq(s, Len(s) - Len(p) + 1, Len(s)) = p

\* str::contains(&str): p occurs in s as a substring.
Contains(s, p) ==
    \E i \in 0..(Len(s) - Len(p)) : SubSeq(s, i + 1, i + Len(p)) = p

RECURSIVE TrimStart(_)
TrimStart(s) ==
    IF s # <<>> /\ IsWhitespace(Head(s)) THEN TrimStart(Tail(s)) ELSE s

RECURSIVE TrimEnd(_)
TrimEnd(s) ==
    IF s # <<>> /\ IsWhitespace(s[Len(s)])
    THEN TrimEnd(SubSeq(s, 1, Len(s) - 1)) ELSE s

\* str::trim.
Trim(s) == TrimEnd(TrimStart(s))

\* str::trim_start_matches(&str): the prefix is removed as often as it matches.
RECURSIVE TrimStartMatches(_, _)
TrimStartMatches(s, p) ==
    IF StartsWith(s, p) THEN TrimStartMatches(SubSeq(s, Len(p) + 1, Len(s)), p)
    ELSE s

----------------------------------------------------------------------------
(* Paths.                                                                  *)

\* Path::join on a Unix host: an absolute right side replaces the left one,
\* otherwise a separator is put between the two unless the left side is empty
\* or already ends with one.
PathJoin(p, s) ==
    IF StartsWith(s, <<"/">>) THEN s
    ELSE IF p = <<>> \/ EndsWith(p, <<"/">>) THEN p \o s
    ELSE p \o <<"/">> \o s

\* Config::path(): base_dir().join("blink.yml").
ConfigPath == <<"<config_dir>", "/", "blink-search", "/", "blink.yml">>

\* format!("{} ({})", name, loc.path): a location as fzf_menu and
\* --list-locations present it.
MenuLine(e) == e.name \o <<" ", "(">> \o e.loc.path \o <<")">>

----------------------------------------------------------------------------
(* The configuration: Config.locations, a LinkedHashMap kept in insertion  *)
(* order, modelled as a sequence of entries with pairwise different names. *)

Location(path, mode, cache_file) ==
    [path |-> path, mode |-> mode, cache_file |-> cache_file]

Entry(name, loc) == [name |-> name, loc |-> loc]

LocationPool ==
    { Entry(<<"h","o","m","e">>, Location(<<"/","h">>, "Files", None)),
      Entry(<<"h","o","s","t">>,
            Location(<<"/","n">>, "Folders", Some(<<"c",".","t","x","t">>))),
      Entry(<<"h","o">>, Location(<<"/","h","/">>, "Folders", None)) }

RECURSIVE DistinctSeqs(_, _)
\* The sequences of at most n entries of S with pairwise different names.
DistinctSeqs(S, n) ==
    IF n = 0 THEN {<<>>}
    ELSE LET shorter == DistinctSeqs(S, n - 1)
         IN  shorter \cup
             { Append(q, e) : <<q, e>> \in
                 { w \in shorter \X S :
                     /\ Len(w[1]) = n - 1
                     /\ \A i \in DOMAIN w[1] : w[1][i].name # w[2].name } }

Configs == DistinctSeqs(LocationPool, MaxLocations)

\* config.locations.keys()
Keys(cfg) == [i \in DOMAIN cfg |-> cfg[i].name]

\* config.locations.contains_key(name)
ContainsKey(cfg, name) == \E i \in DOMAIN cfg : cfg[i].name = name

\* config.locations.get(name)
Get(cfg, name) ==
    IF ContainsKey(cfg, name)
    THEN Some((cfg[CHOOSE i \in DOMAIN cfg : cfg[i].name = name]).loc)
    ELSE None

----------------------------------------------------------------------------
(* The command line (struct Args).                                         *)

Requests ==
    { <<"h","o">>, <<"H","O">>, <<"z","z","z">>, <<"o","s">>, <<>> }

OpenPaths == { <<"d","/","f">> }

Separators == {"Null", "Newline"}

\* Args, by its fields in this order: location, open_path, create_cache,
\* list_locations, get_config_path, normalize_paths.
ArgsOf(l, o, c, ll, g, n) ==
    [location |-> l, open_path |-> o, create_cache |-> c,
     list_locations |-> ll, get_config_path |-> g, normalize_paths |-> n]

OptionOf(S) == {None} \cup {Some(x) : x \in S}

\* The command lines of the normalizer stage, as normalize() spawns it.
NormalizerArgs ==
    { ArgsOf(None, None, FALSE, FALSE, FALSE, Some(sep)) : sep \in Separators }

\* The command lines main is started with: every mix of the flags and the
\* location argument, or the normalizer stage.
ArgSets ==
    { ArgsOf(l, o, c, ll, g, None) :
        l \in OptionOf(Requests), o \in OptionOf(OpenPaths),
        c \in BOOLEAN, ll \in BOOLEAN, g \in BOOLEAN }
    \cup NormalizerArgs

\* The bytes the normalizer is run on in the specification of the whole
\* program; NormSpec runs it on every input up to MaxInputLen.
ExampleInputs ==
    { <<"a","/","b",NUL,".","/","c","\\","d",NUL,NUL>>,
      <<".","\\",".","/","x",LF," ","a",HT,LF>>,
      <<BadByte,BEL,"a">> }

----------------------------------------------------------------------------
(* The path normalizer (main, --normalize-paths).                          *)

\* The byte main splits on.
SeparatorByte(sep) == IF sep = "Null" THEN NUL ELSE LF

\* The index of the first d in b, or 0.
FirstIndex(b, d) ==
    IF \E i \in DOMAIN b : b[i] = d
    THEN CHOOSE i \in DOMAIN b : b[i] = d /\ \A j \in 1..(i - 1) : b[j] # d
    ELSE 0

\* One step of BufRead::split(d): the next record, without its delimiter,
\* and what is left of the stream.  A record ends at the first delimiter or
\* at the end of the stream.
SplitRecord(b, d) ==
    IF FirstIndex(b, d) = 0 THEN b ELSE SubSeq(b, 1, FirstIndex(b, d) - 1)

SplitRest(b, d) ==
    IF FirstIndex(b, d) = 0 THEN <<>>
    ELSE SubSeq(b, FirstIndex(b, d) + 1, Len(b))

\* String::from_utf8_lossy: a byte that is no UTF-8 becomes U+FFFD.
FromUtf8Lossy(b) ==
    [i \in DOMAIN b |-> IF b[i] = BadByte THEN REPLACEMENT_CHARACTER ELSE b[i]]

\* .chars().map(|c| if c.is_control() { REPLACEMENT_CHARACTER } else { c })
ReplaceControl(s) ==
    [i \in DOMAIN s |-> IF IsControl(s[i]) THEN REPLACEMENT_CHARACTER ELSE s[i]]

\* The markers main strips from the start of a record.
DotSlash == <<".", "/">>
DotBackslash == <<".", "\\">>

\* trim, trim_start_matches("./"), trim_start_matches(".\\"), in this order.
StripMarkers(s) ==
    TrimStartMatches(TrimStartMatches(Trim(s), DotSlash), DotBackslash)

\* The line main prints for one record of the input.
NormalizeRecord(rec) == ReplaceControl(StripMarkers(FromUtf8Lossy(rec)))

----------------------------------------------------------------------------
(* The filter driver (fzf_open): decoding and reconciliation.              *)

\* enum OpenAction
Menu == [tag |-> "Menu"]
Open(path) == [tag |-> "Open", path |-> path]

\* Result<OpenAction> and Result<String>
Ok(x) == [ok |-> TRUE, v |-> x]
Err(msg) == [ok |-> FALSE, msg |-> msg]

\* The sentinel lines the key bindings make the filter print.
TAB == <<"T","A","B">>
EDIT_CONFIG == <<"E","D","I","T","_","C","O","N","F","I","G">>

Quote == <<"\"">>

\* str::replace("\\\\", "\\"): every doubled backslash, found left to right
\* without overlap, becomes a single one.
RECURSIVE Unescape(_)
Unescape(s) ==
    IF s = <<>> THEN <<>>
    ELSE IF StartsWith(s, <<"\\", "\\">>)
         THEN <<"\\">> \o Unescape(SubSeq(s, 3, Len(s)))
         ELSE <<Head(s)>> \o Unescape(Tail(s))

\* The guard of the first arm of `match s.trim()`.
IsQuoted(t) == StartsWith(t, Quote) /\ EndsWith(t, Quote)

\* s[1..s.len()-1] panics when the range starts after its end: a line that is
\* one quote character starts and ends with a quote.
SlicePanics(s) == IsQuoted(Trim(s)) /\ Len(Trim(s)) < 2

\* The selection the third arm of the line match computes from a line.
Selection(s) ==
    IF IsQuoted(Trim(s))
    THEN Unescape(SubSeq(Trim(s), 2, Len(Trim(s)) - 1))
    ELSE Trim(s)

\* The pending action one line of the filter's output is decoded into.
DecodeLine(s, loc) ==
    IF s = TAB THEN Menu
    ELSE IF s = EDIT_CONFIG THEN Open(ConfigPath)
    ELSE Open(PathJoin(loc.path, Selection(s)))

\* The exit code the filter reports when the user aborts it.
USER_ABORT == 130

\* A mutant of Reconcile: the exit code is checked before the pending Open.
Reconcile_ExitCodeFirst(code, act) ==
    IF code = USER_ABORT /\ act.some /\ act.v.tag = "Menu" THEN Ok(Menu)
    ELSE IF code = 0 /\ act.some /\ act.v.tag = "Open" THEN Ok(act.v)
    ELSE Err(<<"fzf exited with code", code>>)

\* A mutant of Reconcile: a pending Menu is accepted with every exit code.
Reconcile_MenuAnyCode(code, act) ==
    IF act.some /\ act.v.tag = "Menu" THEN Ok(Menu)
    ELSE IF act.some /\ act.v.tag = "Open" THEN Ok(act.v)
    ELSE Err(<<"fzf exited with code", code>>)

\* `match (ret, action)` at the end of fzf_open.
Reconcile(code, act) ==
    IF code = USER_ABORT /\ act.some /\ act.v.tag = "Menu" THEN Ok(Menu)
    ELSE IF act.some /\ act.v.tag = "Open" THEN Ok(act.v)
    ELSE Err(<<"fzf exited with code", code>>)

\* A mutant of AssertActionIsNone: the assertion is compiled out.
AssertActionIsNone_Off(act) == TRUE

\* assert!(action.is_none()) at the head of the line loop.
AssertActionIsNone(act) == act = None

\* What the filter may print on one line, and a read result that is an error.
FilterLines ==
    { TAB, EDIT_CONFIG, <<"a">>, <<" ","T","A","B">>, <<>>, <<" ">>,
      <<"\"","a","\\","\\","\\","\\","b","\"">>, Quote }

ReadResults == {Ok(l) : l \in FilterLines} \cup {Err(<<"read">>)}

\* ExitStatus::code(): the exit code, or None for a filter killed by a signal.
ExitCodes == {0, 1, 2, USER_ABORT}
ExitStatuses == OptionOf(ExitCodes)

----------------------------------------------------------------------------
(* open_folder.                                                            *)

\* path.replace("\\", "/")
ReplaceBackslash(s) == [i \in DOMAIN s |-> IF s[i] = "\\" THEN "/" ELSE s[i]]

\* Regex "/+" replaced by "/": a run of separators becomes one.
RECURSIVE CollapseSlashes(_)
CollapseSlashes(s) ==
    IF Len(s) < 2 THEN s
    ELSE IF s[1] = "/" /\ s[2] = "/" THEN CollapseSlashes(Tail(s))
    ELSE <<Head(s)>> \o CollapseSlashes(Tail(s))

\* The argument open_folder hands to xdg-open.
OpenerArg(path) == CollapseSlashes(ReplaceBackslash(Trim(path)))

----------------------------------------------------------------------------
(* Name resolution (main).                                                 *)

\* A mutant of Matches: the keys are compared without lower-casing.
Matches_CaseSensitive(cfg, loc) ==
    SelectSeq(Keys(cfg), LAMBDA k : Contains(k, loc))

\* config.locations.keys().filter(|k| k.to_lowercase().contains(&loc.to_lowercase()))
Matches(cfg, loc) ==
    SelectSeq(Keys(cfg), LAMBDA k : Contains(ToLowercase(k), ToLowercase(loc)))

\* A mutant of MatchArm: no match falls back to the picker.
MatchArm_FallbackMenu(m) == IF Len(m) = 1 THEN "name" ELSE "menu"

\* The arm of `match (matches.next(), matches.next())` that is taken.
MatchArm(m) ==
    IF Len(m) >= 2 THEN "menu" ELSE IF Len(m) = 1 THEN "name" ELSE "none"

NoLocationFound == <<"No location found">>

\* info!("Cache file {} not found. ..") before exit(-1).
CacheFileNotFound == <<"Cache file not found">>

----------------------------------------------------------------------------
(* The state machine.                                                      *)

\* A subprocess spawn, as recorded in `spawned`.
Proc(name, arg) == [proc |-> name, arg |-> arg]

\* Command::spawn: the subprocesses this step appended to `spawned` run.
Started == live' = live \cup ((DOMAIN spawned') \ (DOMAIN spawned))

\* Child::wait and Child::wait_with_output return once the child has ended:
\* the subprocesses left running when the filter `name` has been waited for.
Reaped(name) == live \ {j \in DOMAIN spawned : spawned[j].proc = name}

\* The process ends: main returns Ok (exit code 0), returns an error (exit
\* code 1), panics (exit code 101) or calls exit(-1).
Finish(how, msg) ==
    /\ outcome' = how
    /\ error' = msg
    /\ pc' = "done"

NoError == <<>>

\* The exit code of the process: 0 when main returns Ok(()), 1 when it
\* returns an error, 101 after a panic, and 255 for exit(-1).
ExitCode(how) ==
    CASE how = "ok" -> 0
      [] how = "err" -> 1
      [] how = "panic" -> 101
      [] how = "exit" -> 255

InitCommon ==
    /\ pc = "main"
    /\ location_name = None
    /\ menu_query = None
    /\ menu_caller = "none"
    /\ action = None
    /\ fzf_lines = <<>>
    /\ ret = None
    /\ result = None
    /\ outcome = "running"
    /\ error = NoError
    /\ spawned = <<>>
    /\ iter_base = 0
    /\ log = <<>>
    /\ menus = 0
    /\ live = {}
    /\ picker_end = [line |-> 0, status |-> None]
    /\ stdout = <<>>
    /\ input = stdin

Init ==
    /\ config \in Configs
    /\ args \in ArgSets
    /\ stdin \in (IF args.normalize_paths.some THEN ExampleInputs ELSE {<<>>})
    /\ InitCommon

\* main, lines 241-245: --normalize-paths selects the normalizer.
NormalizePaths ==
    /\ pc = "main"
    /\ args.normalize_paths.some
    /\ pc' = "normalize"
    /\ UNCHANGED <<config, args, live, picker_end, location_name, menu_query, menu_caller,
                   action, fzf_lines, ret, result, outcome, error, spawned,
                   iter_base, log, menus, stdin, input, stdout>>

\* One turn of `for line in BufReader::new(io::stdin()).split(separator)`:
\* the next record is read, normalized and printed.
NormalizeLine ==
    /\ pc = "normalize"
    /\ stdin # <<>>
    /\ LET d == SeparatorByte(args.normalize_paths.v)
       IN  /\ stdout' = Append(stdout, NormalizeRecord(SplitRecord(stdin, d)))
           /\ stdin' = SplitRest(stdin, d)
    /\ UNCHANGED <<config, args, live, picker_end, pc, location_name, menu_query, menu_caller,
                   action, fzf_lines, ret, result, outcome, error, spawned,
                   iter_base, log, menus, input>>

\* The end of the input: main returns Ok(()).
NormalizeEnd ==
    /\ pc = "normalize"
    /\ stdin = <<>>
    /\ Finish("ok", NoError)
    /\ UNCHANGED <<config, args, live, picker_end, location_name, menu_query, menu_caller,
                   action, fzf_lines, ret, result, spawned, iter_base, log, menus,
                   stdin, input, stdout>>

\* main, lines 257-260.
GetConfigPath ==
    /\ pc = "main"
    /\ ~args.normalize_paths.some
    /\ args.get_config_path
    /\ stdout' = Append(stdout, ConfigPath)
    /\ Finish("ok", NoError)
    /\ UNCHANGED <<config, args, live, picker_end, location_name, menu_query, menu_caller,
                   action, fzf_lines, ret, result, spawned, iter_base, log, menus,
                   stdin, input>>

\* main, lines 262-267.
ListLocations ==
    /\ pc = "main"
    /\ ~args.normalize_paths.some
    /\ ~args.get_config_path
    /\ args.list_locations
    /\ stdout' = stdout \o [i \in DOMAIN config |-> MenuLine(config[i])]
    /\ Finish("ok", NoError)
    /\ UNCHANGED <<config, args, live, picker_end, location_name, menu_query, menu_caller,
                   action, fzf_lines, ret, result, spawned, iter_base, log, menus,
                   stdin, input>>

\* None of the flags that make main return before it looks at the locations.
NoEarlyFlag ==
    /\ ~args.normalize_paths.some
    /\ ~args.get_config_path
    /\ ~args.list_locations

\* main, lines 269-284: an empty location map prints a hint and returns Ok(()).
NoLocations ==
    /\ pc = "main"
    /\ NoEarlyFlag
    /\ config = <<>>
    /\ stdout' = Append(stdout, <<"No locations defined">>)
    /\ Finish("ok", NoError)
    /\ UNCHANGED <<config, args, live, picker_end, location_name, menu_query, menu_caller,
                   action, fzf_lines, ret, result, spawned, iter_base, log, menus,
                   stdin, input>>

\* main reaches `let mut location_name = match args.location`.
EnterResolve ==
    /\ pc = "main"
    /\ NoEarlyFlag
    /\ config # <<>>
    /\ pc' = "resolve"
    /\ UNCHANGED <<config, args, live, picker_end, location_name, menu_query, menu_caller,
                   action, fzf_lines, ret, result, outcome, error, spawned,
                   iter_base, log, menus, stdin, input, stdout>>

\* A mutant of ResolveName: the single match arm keeps the text that was
\* typed instead of the key it matched.
ResolveName_KeepsRequest ==
    /\ pc = "resolve"
    /\ \/ /\ ~args.location.some
          /\ location_name' = Some(Keys(config)[1])
       \/ /\ args.location.some
          /\ \/ ContainsKey(config, args.location.v)
             \/ MatchArm(Matches(config, args.location.v)) = "name"
          /\ location_name' = Some(args.location.v)
    /\ pc' = "resolved"
    /\ UNCHANGED <<config, args, live, picker_end, menu_query, menu_caller,
                   action, fzf_lines, ret, result, outcome, error, spawned,
                   iter_base, log, menus, stdin, input, stdout>>

\* main, lines 286-302, the arms that name a location at once.
ResolveName ==
    /\ pc = "resolve"
    /\ \/ /\ ~args.location.some
          /\ location_name' = Some(Keys(config)[1])
       \/ /\ args.location.some
          /\ ContainsKey(config, args.location.v)
          /\ location_name' = Some(args.location.v)
       \/ /\ args.location.some
          /\ ~ContainsKey(config, args.location.v)
          /\ MatchArm(Matches(config, args.location.v)) = "name"
          /\ location_name' = Some(Matches(config, args.location.v)[1])
    /\ pc' = "resolved"
    /\ UNCHANGED <<config, args, live, picker_end, menu_query, menu_caller, action, fzf_lines,
                   ret, result, outcome, error, spawned, iter_base, log, menus,
                   stdin, input, stdout>>

\* main, line 295: two or more matches call fzf_menu(Some(&loc), &config).
ResolveMenu ==
    /\ pc = "resolve"
    /\ args.location.some
    /\ ~ContainsKey(config, args.location.v)
    /\ MatchArm(Matches(config, args.location.v)) = "menu"
    /\ menu_query' = Some(args.location.v)
    /\ menu_caller' = "resolve"
    /\ log' = Append(log, [ev |-> "fzf_menu", query |-> Some(args.location.v)])
    /\ pc' = "menu"
    /\ UNCHANGED <<config, args, live, picker_end, location_name, action, fzf_lines, ret, result,
                   outcome, error, spawned, iter_base, menus, stdin, input,
                   stdout>>

\* main, line 297: no match is the error "No location found".
ResolveNone ==
    /\ pc = "resolve"
    /\ args.location.some
    /\ ~ContainsKey(config, args.location.v)
    /\ MatchArm(Matches(config, args.location.v)) = "none"
    /\ Finish("err", NoLocationFound)
    /\ UNCHANGED <<config, args, live, picker_end, location_name, menu_query, menu_caller,
                   action, fzf_lines, ret, result, spawned, iter_base, log, menus,
                   stdin, input, stdout>>

----------------------------------------------------------------------------
(* The location picker (fzf_menu).                                         *)

\* What the picker's filter may write on its standard output.
MenuOutputs(cfg) ==
    { MenuLine(cfg[i]) \o <<LF>> : i \in DOMAIN cfg } \cup { <<>>, <<"z", LF>> }

\* What the user may do in the picker: accept the presented line of the
\* location at index `line`, or end the filter with some other output.
MenuChoices(cfg) ==
    { ch \in [line : 0..Len(cfg), out : MenuOutputs(cfg)] :
        IF ch.line = 0
        THEN \A i \in DOMAIN cfg : ch.out # MenuLine(cfg[i]) \o <<LF>>
        ELSE ch.out = MenuLine(cfg[ch.line]) \o <<LF>> }

\* config.locations.iter().map(..).find(|(_, text)| text == s.trim())
\*     .map(|(name, _)| name.to_owned()): the first location whose line is
\* the trimmed output.
MenuSelection(cfg, out) ==
    IF \E i \in DOMAIN cfg : MenuLine(cfg[i]) = Trim(out)
    THEN Some(cfg[CHOOSE i \in DOMAIN cfg :
                    /\ MenuLine(cfg[i]) = Trim(out)
                    /\ \A j \in 1..(i - 1) : MenuLine(cfg[j]) # Trim(out)].name)
    ELSE None

\* The file name of the picker's history, under Config::base_dir().
MenuHistoryFile == <<"history-">> \o <<"m","e","n","u">> \o <<".txt">>

\* The filter, as fzf_menu spawns it.
MenuProc(query) ==
    [proc |-> "fzf_menu", arg |-> [query |-> query, history |-> MenuHistoryFile]]

\* fzf_menu, lines 152-161: the filter is spawned; a failure is returned and
\* main's `?` ends the process with it.
FzfMenuSpawn ==
    /\ pc = "menu"
    /\ picker_end' = [line |-> 0, status |-> None]
    /\ \/ /\ spawned' = Append(spawned, MenuProc(menu_query))
          /\ pc' = "menu_wait"
          /\ UNCHANGED <<outcome, error, log>>
       \/ /\ log' = Append(log, [ev |-> "fzf_menu_ret", res |-> Err(<<"spawn">>)])
          /\ Finish("err", <<"spawn">>)
          /\ UNCHANGED spawned
    /\ UNCHANGED <<config, args, location_name, menu_query, menu_caller,
                   action, fzf_lines, ret, result, iter_base, menus, stdin, input,
                   stdout>>
    /\ Started

\* The location the picker returned becomes main's location_name, at line 295
\* (before the mode checks) or at line 330 (before the next turn of the loop).
MenuReturnPc == IF menu_caller = "resolve" THEN "resolved" ELSE "loop"

\* A mutant of NextLocationName: the picked location is dropped.
NextLocationName_Keep(picked) == location_name

\* main, lines 295 and 330: `location_name = fzf_menu(..)?`.
NextLocationName(picked) == Some(picked)

\* fzf_menu, lines 167-179: the filter's exit code and output decide.
FzfMenuExit ==
    /\ pc = "menu_wait"
    /\ \E st \in ExitStatuses, ch \in MenuChoices(config) :
       LET out == ch.out IN
         /\ picker_end' = [line |-> ch.line, status |-> st]
         /\ IF ~st.some
            THEN \* out.status.code().unwrap()
                 /\ Finish("panic", <<"unwrap on None">>)
                 /\ UNCHANGED <<location_name, log>>
            ELSE IF st.v # 0
            THEN /\ log' = Append(log, [ev |-> "fzf_menu_ret",
                                        res |-> Err(<<"fzf exited with code", st.v>>)])
                 /\ Finish("err", <<"fzf exited with code", st.v>>)
                 /\ UNCHANGED location_name
            ELSE IF ~MenuSelection(config, out).some
            THEN \* .find(..).map(..).unwrap()
                 /\ Finish("panic", <<"unwrap on None">>)
                 /\ UNCHANGED <<location_name, log>>
            ELSE /\ location_name' = NextLocationName(MenuSelection(config, out).v)
                 /\ log' = Append(log, [ev |-> "fzf_menu_ret",
                                        res |-> Ok(MenuSelection(config, out).v)])
                 /\ pc' = MenuReturnPc
                 /\ UNCHANGED <<outcome, error>>
    /\ UNCHANGED <<config, args, menu_query, menu_caller, action, fzf_lines,
                   ret, result, spawned, iter_base, menus, stdin, input, stdout>>
    /\ live' = Reaped("fzf_menu")

----------------------------------------------------------------------------
(* The candidate source and the modes that follow name resolution.         *)

\* read_location_cmd: fd, in the location's directory, for one entry type.
FdProc(loc) ==
    Proc("fd", [dir |-> loc.path,
                type |-> IF loc.mode = "Files" THEN "f" ELSE "d"])

\* normalize: this program again, with --normalize-paths=<sep>.
NormalizeProc(sep) == Proc("normalize", sep)

\* open_folder: the opener, with the path as open_folder rewrites it.
OpenerProc(path) == Proc("opener", OpenerArg(path))

\* The panic of `config.locations.get(&location_name).unwrap()` on a name
\* that is no key.
LookupFailed == <<"unwrap on None", "locations.get">>

\* config.locations.get(&location_name)
CurrentLocation == Get(config, location_name.v)

\* main, lines 304-309: --create-cache copies the candidates of a live scan.
CreateCache ==
    /\ pc = "resolved"
    /\ args.create_cache
    /\ IF ~CurrentLocation.some
       THEN /\ Finish("panic", LookupFailed)
            /\ UNCHANGED <<spawned, stdout>>
       ELSE \/ /\ Finish("err", <<"spawn">>)
               /\ UNCHANGED <<spawned, stdout>>
            \/ /\ spawned' = Append(spawned, FdProc(CurrentLocation.v))
               /\ Finish("err", <<"spawn">>)
               /\ UNCHANGED stdout
            \/ /\ spawned' = spawned \o <<FdProc(CurrentLocation.v),
                                          NormalizeProc("Null")>>
               /\ stdout' = Append(stdout, <<"<candidates>">>)
               /\ Finish("ok", NoError)
    /\ UNCHANGED <<config, args, picker_end, location_name, menu_query, menu_caller,
                   action, fzf_lines, ret, result, iter_base, log, menus, stdin,
                   input>>
    /\ Started

\* main, lines 311-319: --open-path opens a path of the location directly.
OpenPath ==
    /\ pc = "resolved"
    /\ ~args.create_cache
    /\ args.open_path.some
    /\ IF ~CurrentLocation.some
       THEN /\ Finish("panic", LookupFailed)
            /\ UNCHANGED <<spawned, log>>
       ELSE LET path == PathJoin(CurrentLocation.v.path, args.open_path.v)
            IN  /\ log' = Append(log, [ev |-> "open_folder", path |-> path])
                /\ \/ /\ spawned' = Append(spawned, OpenerProc(path))
                      /\ Finish("ok", NoError)
                   \/ /\ UNCHANGED spawned
                      /\ Finish("panic", <<"unwrap on Err">>)
    /\ UNCHANGED <<config, args, picker_end, location_name, menu_query, menu_caller,
                   action, fzf_lines, ret, result, iter_base, menus, stdin, input,
                   stdout>>
    /\ Started

\* Neither mode: main enters the loop.
EnterLoop ==
    /\ pc = "resolved"
    /\ ~args.create_cache
    /\ ~args.open_path.some
    /\ pc' = "loop"
    /\ UNCHANGED <<config, args, live, picker_end, location_name, menu_query, menu_caller,
                   action, fzf_lines, ret, result, outcome, error, spawned,
                   iter_base, log, menus, stdin, input, stdout>>

----------------------------------------------------------------------------
(* The loop of main and the filter driver fzf_open.                        *)

\* location_to_id: the characters outside [a-zA-Z0-9] removed, lower-cased.
IsAlnum(c) ==
    \/ c \in Digits
    \/ \E i \in DOMAIN UpperCase : c = UpperCase[i] \/ c = LowerCase[i]

location_to_id(name) == ToLowercase(SelectSeq(name, IsAlnum))

\* The file name of a location's history, under Config::base_dir().
HistoryFile(name) == <<"history-">> \o location_to_id(name) \o <<".txt">>

\* The filter, as fzf_open spawns it for a location.
FzfProc(name) == Proc("fzf", [location |-> name, history |-> HistoryFile(name)])

\* fzf_open returns: main's `match fzf_open(..)?` is next.
Return(res) ==
    /\ result' = Some(res)
    /\ log' = Append(log, [ev |-> "fzf_open_ret", res |-> res])
    /\ pc' = "match"

\* main, lines 322-323, and fzf_open, line 101: the active location is looked
\* up and fzf_open is entered.
LoopHead ==
    /\ pc = "loop"
    /\ IF ~CurrentLocation.some
       THEN /\ Finish("panic", LookupFailed)
            /\ UNCHANGED <<action, fzf_lines, ret, result, iter_base, log>>
       ELSE /\ action' = None
            /\ fzf_lines' = <<>>
            /\ ret' = None
            /\ iter_base' = Len(spawned)
            /\ UNCHANGED <<outcome, error>>
            /\ \/ /\ pc' = "source"
                  /\ result' = None
                  /\ log' = Append(log, [ev |-> "fzf_open", name |-> location_name.v])
               \/ \* env::current_exe()? fails
                  /\ pc' = "match"
                  /\ result' = Some(Err(<<"current_exe">>))
                  /\ log' = log \o <<[ev |-> "fzf_open", name |-> location_name.v],
                                     [ev |-> "fzf_open_ret", res |-> Err(<<"current_exe">>)]>>
    /\ UNCHANGED <<config, args, live, picker_end, location_name, menu_query, menu_caller,
                   spawned, menus, stdin, input, stdout>>

\* A mutant of ReadLocationFromCache: the normalizer is spawned before the
\* cache file is opened.
ReadLocationFromCache_SpawnFirst ==
    /\ pc = "source"
    /\ CurrentLocation.v.cache_file.some
    /\ \/ /\ spawned' = Append(spawned, NormalizeProc("Newline"))
          /\ Finish("exit", CacheFileNotFound)
          /\ UNCHANGED <<result, log>>
       \/ /\ spawned' = Append(spawned, NormalizeProc("Newline"))
          /\ pc' = "fzf"
          /\ UNCHANGED <<outcome, error, result, log>>
       \/ /\ Return(Err(<<"spawn">>))
          /\ UNCHANGED <<outcome, error, spawned>>
    /\ UNCHANGED <<config, args, picker_end, location_name, menu_query, menu_caller,
                   action, fzf_lines, ret, iter_base, menus, stdin, input,
                   stdout>>
    /\ Started

\* read_location_from_cache: the cache file is opened, and exit(-1) is called
\* when it cannot be; otherwise the normalizer is spawned on it.
ReadLocationFromCache ==
    /\ pc = "source"
    /\ CurrentLocation.v.cache_file.some
    /\ \/ /\ Finish("exit", CacheFileNotFound)
          /\ UNCHANGED <<spawned, result, log>>
       \/ /\ spawned' = Append(spawned, NormalizeProc("Newline"))
          /\ pc' = "fzf"
          /\ UNCHANGED <<outcome, error, result, log>>
       \/ /\ Return(Err(<<"spawn">>))
          /\ UNCHANGED <<outcome, error, spawned>>
    /\ UNCHANGED <<config, args, picker_end, location_name, menu_query, menu_caller,
                   action, fzf_lines, ret, iter_base, menus, stdin, input, stdout>>
    /\ Started

\* read_location_with_fd: fd is spawned, then the normalizer on its output.
ReadLocationWithFd ==
    /\ pc = "source"
    /\ ~CurrentLocation.v.cache_file.some
    /\ \/ /\ Return(Err(<<"spawn">>))
          /\ UNCHANGED spawned
       \/ /\ spawned' = Append(spawned, FdProc(CurrentLocation.v))
          /\ Return(Err(<<"spawn">>))
       \/ /\ spawned' = spawned \o <<FdProc(CurrentLocation.v),
                                     NormalizeProc("Null")>>
          /\ pc' = "fzf"
          /\ UNCHANGED <<result, log>>
    /\ UNCHANGED <<config, args, picker_end, location_name, menu_query, menu_caller,
                   action, fzf_lines, ret, outcome, error, iter_base, menus, stdin,
                   input, stdout>>
    /\ Started

\* fzf_open, lines 108-120: the filter is spawned on the candidate stream.
SpawnFzf ==
    /\ pc = "fzf"
    /\ \/ /\ spawned' = Append(spawned, FzfProc(location_name.v))
          /\ pc' = "read"
          /\ UNCHANGED <<result, log>>
       \/ /\ Return(Err(<<"spawn">>))
          /\ UNCHANGED spawned
    /\ UNCHANGED <<config, args, picker_end, location_name, menu_query, menu_caller,
                   action, fzf_lines, ret, outcome, error, iter_base, menus, stdin,
                   input, stdout>>
    /\ Started

\* One turn of `for line in reader.lines()`: the assertion, then the match.
ReadLine ==
    /\ pc = "read"
    /\ \E r \in ReadResults :
         /\ fzf_lines' = IF r.ok THEN Append(fzf_lines, r.v) ELSE fzf_lines
         /\ IF ~AssertActionIsNone(action)
            THEN /\ Finish("panic", <<"assertion failed: action.is_none()">>)
                 /\ UNCHANGED action
            ELSE IF ~r.ok
            THEN /\ Finish("panic", <<"Error reading line">>)
                 /\ UNCHANGED action
            ELSE IF r.v # TAB /\ r.v # EDIT_CONFIG /\ SlicePanics(r.v)
            THEN /\ Finish("panic", <<"slice index starts at 1 but ends at 0">>)
                 /\ UNCHANGED action
            ELSE /\ action' = Some(DecodeLine(r.v, CurrentLocation.v))
                 /\ UNCHANGED <<pc, outcome, error>>
    /\ UNCHANGED <<config, args, live, picker_end, location_name, menu_query, menu_caller,
                   ret, result, spawned, iter_base, log, menus, stdin, input,
                   stdout>>

\* The filter closed its standard output: the line loop ends.
ReadEnd ==
    /\ pc = "read"
    /\ pc' = "wait"
    /\ UNCHANGED <<config, args, live, picker_end, location_name, menu_query, menu_caller,
                   action, fzf_lines, ret, result, outcome, error, spawned,
                   iter_base, log, menus, stdin, input, stdout>>

\* fzf_open, lines 142-148: the exit status is awaited and reconciled with
\* the pending action.
Wait ==
    /\ pc = "wait"
    /\ \E st \in ExitStatuses :
         IF ~st.some
         THEN \* status.code().unwrap()
              /\ Finish("panic", <<"unwrap on None">>)
              /\ UNCHANGED <<ret, result, log>>
         ELSE /\ ret' = st
              /\ Return(Reconcile(st.v, action))
              /\ UNCHANGED <<outcome, error>>
    /\ UNCHANGED <<config, args, picker_end, location_name, menu_query, menu_caller,
                   action, fzf_lines, spawned, iter_base, menus, stdin, input,
                   stdout>>
    /\ live' = Reaped("fzf")

\* A mutant of MatchErr: the error is dropped and the loop takes another turn.
MatchErr_Retry ==
    /\ pc = "match"
    /\ ~result.v.ok
    /\ menus < MaxMenus
    /\ menus' = menus + 1
    /\ pc' = "loop"
    /\ UNCHANGED <<config, args, live, picker_end, location_name, menu_query,
                   menu_caller, action, fzf_lines, ret, result, outcome, error,
                   spawned, iter_base, log, stdin, input, stdout>>

\* main, line 323: `?` ends main with the error fzf_open returned.
MatchErr ==
    /\ pc = "match"
    /\ ~result.v.ok
    /\ Finish("err", result.v.msg)
    /\ UNCHANGED <<config, args, live, picker_end, location_name, menu_query, menu_caller,
                   action, fzf_lines, ret, result, spawned, iter_base, log, menus,
                   stdin, input, stdout>>

\* main, lines 324-328: the path is handed to open_folder and main returns.
MatchOpen ==
    /\ pc = "match"
    /\ result.v.ok
    /\ result.v.v.tag = "Open"
    /\ log' = Append(log, [ev |-> "open_folder", path |-> result.v.v.path])
    /\ \/ /\ spawned' = Append(spawned, OpenerProc(result.v.v.path))
          /\ Finish("ok", NoError)
       \/ /\ UNCHANGED spawned
          /\ Finish("panic", <<"unwrap on Err">>)
    /\ UNCHANGED <<config, args, picker_end, location_name, menu_query, menu_caller,
                   action, fzf_lines, ret, result, iter_base, menus, stdin, input,
                   stdout>>
    /\ Started

\* main, lines 329-332: the picker is called for the next location.
MatchMenu ==
    /\ pc = "match"
    /\ result.v.ok
    /\ result.v.v.tag = "Menu"
    /\ menus < MaxMenus
    /\ menus' = menus + 1
    /\ menu_query' = None
    /\ menu_caller' = "loop"
    /\ log' = Append(log, [ev |-> "fzf_menu", query |-> None])
    /\ pc' = "menu"
    /\ UNCHANGED <<config, args, live, picker_end, location_name, action, fzf_lines, ret, result,
                   outcome, error, spawned, iter_base, stdin, input, stdout>>

----------------------------------------------------------------------------
(* The specification of the whole program.                                 *)

Next ==
    \/ NormalizePaths
    \/ NormalizeLine
    \/ NormalizeEnd
    \/ GetConfigPath
    \/ ListLocations
    \/ NoLocations
    \/ EnterResolve
    \/ ResolveName
    \/ ResolveMenu
    \/ ResolveNone
    \/ FzfMenuSpawn
    \/ FzfMenuExit
    \/ CreateCache
    \/ OpenPath
    \/ EnterLoop
    \/ LoopHead
    \/ ReadLocationFromCache
    \/ ReadLocationWithFd
    \/ SpawnFzf
    \/ ReadLine
    \/ ReadEnd
    \/ Wait
    \/ MatchErr
    \/ MatchOpen
    \/ MatchMenu

\* The steps of main only: the end of a child main never waits for is a step
\* of LoopSpec (ChildExit). No step of main reads `live`, so leaving those
\* steps out changes no other variable of a behavior.
Spec == Init /\ [][Next]_vars

----------------------------------------------------------------------------
(* The specification of the normalizer alone: every input of at most       *)
(* MaxInputLen bytes, with either separator.                               *)

NormAlphabet == {"a", ".", "/", "\\", " ", NUL, LF}

RECURSIVE SeqsUpTo(_, _)
SeqsUpTo(S, n) ==
    IF n = 0 THEN {<<>>}
    ELSE LET shorter == SeqsUpTo(S, n - 1)
         IN  shorter \cup
             { Append(q, c) : <<q, c>> \in
                 { w \in shorter \X S : Len(w[1]) = n - 1 } }

NormInputs == SeqsUpTo(NormAlphabet, MaxInputLen)

NormInit ==
    /\ config = <<>>
    /\ args \in NormalizerArgs
    /\ stdin \in NormInputs
    /\ InitCommon

NormNext ==
    \/ NormalizePaths
    \/ NormalizeLine
    \/ NormalizeEnd

NormSpec == NormInit /\ [][NormNext]_vars

----------------------------------------------------------------------------
(* The specification of the loop alone: blink-search without arguments, on  *)
(* locations whose names and paths share history files and picker lines,   *)
(* and with the subprocesses that main never waits for ending when they do. *)

\* Two locations the picker presents by the same line `a (b) (c)`, two whose
\* names differ in case only, and one that is named like the picker.
LoopPool ==
    { Entry(<<"a">>, Location(<<"b",")"," ","(","c">>, "Files", None)),
      Entry(<<"a"," ","(","b",")">>,
            Location(<<"c">>, "Folders", Some(<<"c",".","t","x","t">>))),
      Entry(<<"A">>, Location(<<"/","h">>, "Files", None)),
      Entry(<<"m","e","n","u">>, Location(<<"/","n">>, "Folders", None)) }

LoopInit ==
    /\ config \in DistinctSeqs(LoopPool, MaxLocations) \ {<<>>}
    /\ args = ArgsOf(None, None, FALSE, FALSE, FALSE, None)
    /\ stdin = <<>>
    /\ InitCommon

\* normalize, read_location_with_fd and open_folder spawn a child and never
\* wait for it: it ends on its own, at any time while main runs.
ChildExit ==
    /\ outcome = "running"
    /\ \E j \in live :
         /\ spawned[j].proc \in {"fd", "normalize", "opener"}
         /\ live' = live \ {j}
    /\ UNCHANGED <<config, args, pc, location_name, menu_query, menu_caller,
                   action, fzf_lines, ret, result, outcome, error, spawned,
                   iter_base, log, menus, picker_end, stdin, input, stdout>>

LoopNext ==
    \/ EnterResolve
    \/ ResolveName
    \/ FzfMenuSpawn
    \/ FzfMenuExit
    \/ EnterLoop
    \/ LoopHead
    \/ ReadLocationFromCache
    \/ ReadLocationWithFd
    \/ SpawnFzf
    \/ ReadLine
    \/ ReadEnd
    \/ Wait
    \/ MatchErr
    \/ MatchOpen
    \/ MatchMenu
    \/ ChildExit

LoopSpec == LoopInit /\ [][LoopNext]_vars

----------------------------------------------------------------------------
(* Claims about the filter driver.                                         *)

IsOkMenu(r) == r.some /\ r.v.ok /\ r.v.v.tag = "Menu"
IsOkOpen(r, p) == r.some /\ r.v.ok /\ r.v.v.tag = "Open" /\ r.v.v.path = p
IsErr(r) == r.some /\ ~r.v.ok
PendingOpen == action.some /\ action.v.tag = "Open"

\* C1: when the one line the filter printed was decoded into a pending
\* Open(p), fzf_open returns Ok(Open(p)) with the same p whatever exit code
\* the filter reports; the exit code never makes it an error or Menu.
C1_OpenWinsOverExitCode ==
    (pc = "match" /\ ret.some /\ PendingOpen)
        => /\ IsOkOpen(result, action.v.path)
           /\ action.v = DecodeLine(fzf_lines[1], CurrentLocation.v)
           /\ Len(fzf_lines) = 1

\* C1, witness: a selection line is returned as Open although the filter
\* reported the user-abort code.
C1_Witness ==
    /\ pc = "match"
    /\ ret = Some(USER_ABORT)
    /\ fzf_lines = << <<"a">> >>
    /\ IsOkOpen(result, PathJoin(CurrentLocation.v.path, <<"a">>))

\* C2: fzf_open returns Ok(Menu) exactly when the only line was TAB and the
\* exit code is 130; the line TAB with any other exit code is an error.
C2_MenuIffTabAnd130 ==
    /\ IsOkMenu(result) <=> (fzf_lines = <<TAB>> /\ ret = Some(USER_ABORT))
    /\ (fzf_lines = <<TAB>> /\ ret.some /\ ret.v # USER_ABORT) => IsErr(result)

\* C2, witness: a candidate named TAB was accepted with exit code 0, and
\* fzf_open returned an error.
C2_Witness ==
    /\ pc = "match"
    /\ fzf_lines = <<TAB>>
    /\ ret = Some(0)
    /\ IsErr(result)

\* C3: no line at all and the user-abort exit code is a valid run: fzf_open
\* reports no error for it.
C3_AbortWithoutLineIsValid ==
    (pc = "match" /\ fzf_lines = <<>> /\ ret = Some(USER_ABORT)) => ~IsErr(result)

\* C4: a second line from the filter ends the run in a fatal internal error,
\* whatever the lines are: fzf_open returns nothing, the opener is not
\* started and the active location stays what it was.
C4_SecondLineIsFatal ==
    Len(fzf_lines) >= 2
        => /\ outcome = "panic"
           /\ pc = "done"
           /\ result = None
           /\ ret = None
           /\ \A i \in DOMAIN spawned : spawned[i].proc # "opener"
           /\ log[Len(log)].ev = "fzf_open"
           /\ log[Len(log)].name = location_name.v

\* C4, witness: a selection followed by the sentinel TAB.
C4_Witness ==
    /\ fzf_lines = << <<"a">>, TAB >>
    /\ outcome = "panic"

----------------------------------------------------------------------------
(* Claims about name resolution and the loop.                              *)

\* q occurs in k when case is ignored.
CIContains(k, q) ==
    \E i \in 0..(Len(k) - Len(q)) :
        \A j \in 1..Len(q) : LowerChar(k[i + j]) = LowerChar(q[j])

\* The configured locations whose name contains q, case ignored.
MatchingKeys(q) == {i \in DOMAIN config : CIContains(config[i].name, q)}

IsKey(q) == \E i \in DOMAIN config : config[i].name = q

C5_ResolutionStep ==
    pc = "resolve" =>
        IF ~args.location.some
        THEN /\ pc' = "resolved"
             /\ location_name' = Some(config[1].name)
             /\ log' = log
        ELSE IF IsKey(args.location.v)
        THEN /\ pc' = "resolved"
             /\ location_name' = args.location
             /\ log' = log
             /\ spawned' = spawned
        ELSE IF Cardinality(MatchingKeys(args.location.v)) = 1
        THEN /\ pc' = "resolved"
             /\ \E i \in MatchingKeys(args.location.v) :
                    location_name' = Some(config[i].name)
             /\ log' = log
        ELSE IF Cardinality(MatchingKeys(args.location.v)) >= 2
        THEN /\ pc' = "menu"
             /\ menu_query' = args.location
             /\ location_name' = location_name
        ELSE TRUE

\* C5: name resolution is the reference function: no name gives the first
\* location; a name that is a key gives that key without the picker; else
\* one case-insensitive substring match gives that key, and two or more call
\* the picker with the request as its query.
C5_Resolution == [][C5_ResolutionStep]_vars

\* C5, witness: "HO" matches home and host only when case is ignored, and the
\* picker was called with "HO" as its query.
C5_Witness ==
    /\ pc = "menu"
    /\ menu_caller = "resolve"
    /\ menu_query = Some(<<"H","O">>)
    /\ Keys(config) = << <<"h","o","m","e">>, <<"h","o","s","t">> >>

\* The request names no configured location, and no mode flag ends main
\* before it looks at the locations.
RequestMatchesNothing ==
    /\ NoEarlyFlag
    /\ args.location.some
    /\ MatchingKeys(args.location.v) = {}

\* C6, as stated: for every configuration, the empty one included, a request
\* that matches no location ends in the error "No location found" with
\* nothing started.
C6_NoMatchIsErrorForEveryConfig ==
    (RequestMatchesNothing /\ pc = "done")
        => /\ outcome = "err"
           /\ error = NoLocationFound
           /\ spawned = <<>>

\* C6, amended: with at least one location configured, a request that
\* matches none ends in the error "No location found"; with the empty
\* location map main prints the hint and returns Ok(()).  In both cases
\* neither the picker, the filter, the enumerator nor the opener is started.
C6_NoMatchIsErrorUnlessEmptyConfig ==
    RequestMatchesNothing
        => /\ pc \in {"main", "resolve", "done"}
           /\ spawned = <<>>
           /\ log = <<>>
           /\ pc = "done" =>
                IF config = <<>>
                THEN /\ outcome = "ok"
                     /\ stdout = << <<"No locations defined">> >>
                ELSE /\ outcome = "err"
                     /\ ExitCode(outcome) # 0
                     /\ error = NoLocationFound
                     /\ stdout = <<>>

\* C6, witness: "zzz" is requested of a non-empty configuration.
C6_Witness ==
    /\ pc = "done"
    /\ config # <<>>
    /\ args.location = Some(<<"z","z","z">>)
    /\ outcome = "err"
    /\ error = NoLocationFound

\* main reaches the loop: no mode flag is given.
LoopMode == NoEarlyFlag /\ ~args.create_cache /\ ~args.open_path.some

OpenFolderCalls == {i \in DOMAIN log : log[i].ev = "open_folder"}
OpenerSpawns == {j \in DOMAIN spawned : spawned[j].proc = "opener"}

\* C7: in the loop the opener is started at most once, directly after
\* fzf_open returned Open(path) and with that path, and the process ends
\* with it; after a Menu result the picker is called next, and the next
\* fzf_open call is for the location the picker returned; the loop ends only
\* by an Open action or by an error.
C7_LoopOrdering ==
    LoopMode =>
        /\ Cardinality(OpenFolderCalls) <= 1
        /\ Cardinality(OpenerSpawns) <= 1
        /\ \A i \in OpenFolderCalls :
             /\ i = Len(log)
             /\ i > 1
             /\ log[i - 1].ev = "fzf_open_ret"
             /\ log[i - 1].res.ok
             /\ log[i - 1].res.v.tag = "Open"
             /\ log[i - 1].res.v.path = log[i].path
             /\ pc = "done"
        /\ \A j \in OpenerSpawns :
             /\ j = Len(spawned)
             /\ OpenFolderCalls # {}
             /\ spawned[j].arg = OpenerArg(log[Len(log)].path)
        /\ \A i \in DOMAIN log :
             (log[i].ev = "fzf_open_ret" /\ log[i].res.ok
                /\ log[i].res.v.tag = "Menu" /\ i < Len(log))
                => /\ log[i + 1].ev = "fzf_menu"
                   /\ ~log[i + 1].query.some
        /\ \A i \in DOMAIN log :
             (log[i].ev = "fzf_menu_ret" /\ log[i].res.ok /\ i < Len(log))
                => /\ log[i + 1].ev = "fzf_open"
                   /\ log[i + 1].name = log[i].res.v
        /\ \A i \in DOMAIN log :
             log[i].ev = "fzf_menu_ret" /\ log[i].res.ok /\ i = Len(log)
                => location_name = Some(log[i].res.v)
        /\ (pc = "done" /\ \E i \in DOMAIN log : log[i].ev = "fzf_open") =>
             \/ outcome \in {"err", "panic", "exit"}
             \/ outcome = "ok" /\ OpenFolderCalls # {} /\ OpenerSpawns # {}

\* C7, witness: a Menu result, a pick of another location, a filter run for
\* it, and the opener at the end.
C7_Witness ==
    /\ LoopMode
    /\ outcome = "ok"
    /\ Len(log) >= 7
    /\ log[2].ev = "fzf_open_ret" /\ log[2].res.ok /\ log[2].res.v.tag = "Menu"
    /\ log[4].ev = "fzf_menu_ret" /\ log[4].res.ok
    /\ log[4].res.v # log[1].name
    /\ log[Len(log)].ev = "open_folder"

\* C8: when the cache file of the active location cannot be opened, the
\* process exits with a non-zero code and nothing was spawned in that turn
\* of the loop: no normalizer, no enumerator, no filter.
C8_MissingCacheExitsBeforeSpawn ==
    (error = CacheFileNotFound \/ outcome = "exit")
        => /\ outcome = "exit"
           /\ pc = "done"
           /\ ExitCode(outcome) # 0
           /\ Len(spawned) = iter_base
           /\ CurrentLocation.v.cache_file.some
           /\ log[Len(log)].ev = "fzf_open"
           /\ log[Len(log)].name = location_name.v

\* C8, witness: the cache file is missing in a later turn of the loop, after
\* subprocesses of an earlier turn were spawned.
C8_Witness ==
    /\ outcome = "exit"
    /\ menus >= 1
    /\ iter_base > 0

----------------------------------------------------------------------------
(* Claims about the normalizer.                                            *)

RECURSIVE CountNonBlank(_, _)
\* The records of b, split at d, that are not empty once trimmed.
CountNonBlank(b, d) ==
    IF b = <<>> THEN 0
    ELSE (IF Trim(FromUtf8Lossy(SplitRecord(b, d))) # <<>> THEN 1 ELSE 0)
         + CountNonBlank(SplitRest(b, d), d)

NormalizerDone == args.normalize_paths.some /\ pc = "done"

\* C9: the normalizer prints one non-blank line for each input record that
\* is not empty after trimming, and nothing for an empty record.
C9_OneLinePerNonBlankRecord ==
    NormalizerDone
        => /\ \A i \in DOMAIN stdout : stdout[i] # <<>>
           /\ Len(stdout) =
                CountNonBlank(input, SeparatorByte(args.normalize_paths.v))

\* C10: no line the normalizer prints holds a control character, begins with
\* ./ or .\, or has whitespace at its start or end.
C10_LinesAreClean ==
    args.normalize_paths.some
        => \A i \in DOMAIN stdout :
             /\ \A j \in DOMAIN stdout[i] : ~IsControl(stdout[i][j])
             /\ ~StartsWith(stdout[i], DotSlash)
             /\ ~StartsWith(stdout[i], DotBackslash)
             /\ Trim(stdout[i]) = stdout[i]

RECURSIVE Println(_)
\* The bytes println! writes for a sequence of lines: each line and a newline.
Println(lines) ==
    IF lines = <<>> THEN <<>>
    ELSE Head(lines) \o <<LF>> \o Println(Tail(lines))

RECURSIVE NormalizeAll(_, _)
\* The lines one run of the normalizer prints for the input b split at d.
NormalizeAll(b, d) ==
    IF b = <<>> THEN <<>>
    ELSE <<NormalizeRecord(SplitRecord(b, d))>>
         \o NormalizeAll(SplitRest(b, d), d)

\* C11: feeding the normalizer's output to a second run that splits at
\* newlines prints the same lines again.
C11_Idempotent ==
    NormalizerDone
        => NormalizeAll(Println(stdout), SeparatorByte("Newline")) = stdout

----------------------------------------------------------------------------
(* Claims about line decoding.                                             *)

\* The one line the filter printed in the current turn of the loop.
TheLine == fzf_lines[1]

\* One line was read in the current turn and it is no sentinel.
OneSelectionLine ==
    /\ pc # "loop"
    /\ Len(fzf_lines) = 1
    /\ TheLine # TAB
    /\ TheLine # EDIT_CONFIG

\* A text that has a double quote at its start and at its end.
Wrapped(t) == t # <<>> /\ t[1] = "\"" /\ t[Len(t)] = "\""

\* The text between the first and the last character of t.
Between(t) == [i \in 1..(Len(t) - 2) |-> t[i + 1]]

RECURSIVE Undoubled(_, _)
\* s from index i on, each doubled backslash read as a single one.
Undoubled(s, i) ==
    IF i > Len(s) THEN <<>>
    ELSE IF i < Len(s) /\ s[i] = "\\" /\ s[i + 1] = "\\"
         THEN <<"\\">> \o Undoubled(s, i + 2)
         ELSE <<s[i]>> \o Undoubled(s, i + 1)

\* The selection the claim assigns to a line.
ClaimedSelection(s) ==
    IF Wrapped(Trim(s)) THEN Undoubled(Between(Trim(s)), 1) ELSE Trim(s)

\* C12: every line other than the two sentinels is decoded to the pending
\* action Open(location.path joined with the selection), where the selection
\* is the trimmed line, or, if that is wrapped in double quotes, the text
\* between the quotes with every doubled backslash made a single one.
C12_SelectionDecoding ==
    OneSelectionLine
        => /\ action.some
           /\ action.v.tag = "Open"
           /\ action.v.path =
                PathJoin(CurrentLocation.v.path, ClaimedSelection(TheLine))

\* The same, for the lines whose decoding does not end the process.
C12_DecodingWhereItCompletes ==
    OneSelectionLine /\ ~SlicePanics(TheLine) /\ outcome # "panic"
        => /\ action.some
           /\ action.v.tag = "Open"
           /\ action.v.path =
                PathJoin(CurrentLocation.v.path, ClaimedSelection(TheLine))

----------------------------------------------------------------------------
(* Claims about the direct-open mode.                                      *)

\* --open-path with a location argument, and no flag that takes precedence.
DirectOpenMode ==
    /\ NoEarlyFlag
    /\ ~args.create_cache
    /\ args.open_path.some
    /\ args.location.some

\* The subprocesses that are interactive filters.
FilterSpawns == {j \in DOMAIN spawned : spawned[j].proc \in {"fzf", "fzf_menu"}}

\* C13: with --open-path and a location argument no interactive filter is
\* started and neither the picker nor the loop is entered, whatever the
\* location argument; the one subprocess of a successful run is the opener,
\* on location.path joined with the relative path.
C13_DirectOpenStartsNoFilter ==
    DirectOpenMode
        => /\ FilterSpawns = {}
           /\ pc \notin {"menu", "menu_wait", "loop", "source", "fzf", "read",
                          "wait", "match"}
           /\ \A k \in DOMAIN log : log[k].ev \notin {"fzf_menu", "fzf_open"}
           /\ Len(spawned) <= 1
           /\ outcome = "ok" /\ location_name.some
                => spawned = <<OpenerProc(PathJoin(CurrentLocation.v.path,
                                                  args.open_path.v))>>

----------------------------------------------------------------------------
(* Claims about the history files.                                         *)

\* The filters spawned by fzf_open, and those spawned by fzf_menu.
LocationFilters == {j \in DOMAIN spawned : spawned[j].proc = "fzf"}
PickerFilters == {j \in DOMAIN spawned : spawned[j].proc = "fzf_menu"}

\* C14: the filters of two locations with different names are given
\* different history files, and no location's filter is given the history
\* file of the picker.
C14_HistoryIndependence ==
    /\ \A i, j \in LocationFilters :
         spawned[i].arg.location # spawned[j].arg.location
             => spawned[i].arg.history # spawned[j].arg.history
    /\ \A i \in LocationFilters, j \in PickerFilters :
         spawned[i].arg.history # spawned[j].arg.history

\* The second half of C14 alone.
C14_NoLocationSharesPickerHistory ==
    \A i \in LocationFilters, j \in PickerFilters :
        spawned[i].arg.history # spawned[j].arg.history

----------------------------------------------------------------------------
(* Claims about the running subprocesses.                                  *)

\* The running subprocesses of one kind.
LiveOf(name) == {j \in live : spawned[j].proc = name}

\* The filters that run, of either kind.
LiveFilters == LiveOf("fzf") \cup LiveOf("fzf_menu")

\* At most one filter runs.
OneFilterLive == Cardinality(LiveFilters) <= 1

\* C15: at most one candidate stream (one enumerator, one normalizer) and at
\* most one filter run in every reachable state, and when a turn of the loop
\* starts its scan no enumerator or normalizer of an earlier turn runs.
C15_OneStreamOneFilter ==
    /\ Cardinality(LiveOf("fd")) <= 1
    /\ Cardinality(LiveOf("normalize")) <= 1
    /\ OneFilterLive
    /\ pc = "source" => LiveOf("fd") \cup LiveOf("normalize") = {}

----------------------------------------------------------------------------
(* Claims about errors.                                                    *)

\* A call of fzf_open or fzf_menu has returned an error.
ErrorReturned ==
    \E k \in DOMAIN log :
        /\ log[k].ev \in {"fzf_open_ret", "fzf_menu_ret"}
        /\ ~log[k].res.ok

\* Once an error was returned it is the last event, and main is at its `?`
\* or has ended with that error and a non-zero exit code.
ErrorIsLast ==
    ErrorReturned
        => /\ log[Len(log)].ev \in {"fzf_open_ret", "fzf_menu_ret"}
           /\ ~log[Len(log)].res.ok
           /\ pc \in {"match", "done"}
           /\ pc = "match" => outcome = "running" /\ result.some /\ ~result.v.ok
           /\ pc = "done" => /\ outcome = "err"
                             /\ error = log[Len(log)].res.msg
                             /\ ExitCode(outcome) # 0

\* The only step after an error ends main with it: nothing is spawned, the
\* opener is not called and the active location stays.
ErrorStep ==
    ErrorReturned
        => /\ pc' = "done"
           /\ outcome' = "err"
           /\ spawned' = spawned
           /\ log' = log
           /\ location_name' = location_name

\* C16: once a call of fzf_open or fzf_menu has returned an error, main ends
\* with that error; from then on no subprocess is spawned, open_folder is not
\* called and the active location is not changed.
C16_ErrorsAreTerminal == []ErrorIsLast /\ [][ErrorStep]_vars

\* fzf_open returned an error after its filter ran, and main has ended.
C16_Witness ==
    /\ pc = "done"
    /\ outcome = "err"
    /\ LocationFilters # {}
    /\ log # <<>>
    /\ log[Len(log)].ev = "fzf_open_ret"
    /\ ~log[Len(log)].res.ok

----------------------------------------------------------------------------
(* Claims about the picker.                                                *)

\* The returns of fzf_menu in the log.
PickerReturns == {k \in DOMAIN log : log[k].ev = "fzf_menu_ret"}

\* The last of them.
LastPickerReturn ==
    log[CHOOSE k \in PickerReturns : \A m \in PickerReturns : m <= k]

\* The picker's filter ended with exit code 0 on an accepted line.
PickedALine ==
    /\ picker_end.status.some
    /\ picker_end.status.v = 0
    /\ picker_end.line > 0

\* The picker's filter ended with another exit code.
PickerFailed == picker_end.status.some /\ picker_end.status.v # 0

\* C17: when the picker's filter exits with code 0 and prints the line of a
\* location, fzf_menu returns the name of the location whose line the user
\* accepted, also when two locations have the same line; on any other exit
\* code it returns an error and no name.
C17_PickerReturnsOwner ==
    /\ PickedALine
         => /\ PickerReturns # {}
            /\ LastPickerReturn.res.ok
            /\ LastPickerReturn.res.v = config[picker_end.line].name
    /\ PickerFailed
         => /\ PickerReturns # {}
            /\ ~LastPickerReturn.res.ok
            /\ outcome = "err"

\* The half of C17 about a non-zero exit code, and that a picked line gives
\* the name of the first location with that line.
C17_FirstWithThatLine ==
    /\ PickedALine
         => /\ PickerReturns # {}
            /\ LastPickerReturn.res.ok
            /\ MenuLine(Entry(LastPickerReturn.res.v,
                               Get(config, LastPickerReturn.res.v).v))
                 = MenuLine(config[picker_end.line])
    /\ PickerFailed
         => /\ PickerReturns # {}
            /\ ~LastPickerReturn.res.ok
            /\ outcome = "err"

----------------------------------------------------------------------------
(* Claims about empty lines.                                               *)

\* The one line read in the current turn is empty or holds whitespace only.
BlankLine ==
    /\ pc # "loop"
    /\ Len(fzf_lines) = 1
    /\ Trim(TheLine) = <<>>

\* C18: a line that is empty or holds whitespace only is not decoded as a
\* selection: no Open action is pending or returned for it, and the opener
\* is not started on the root of the location.
C18_BlankLineOpensNothing ==
    BlankLine
        => /\ ~(action.some /\ action.v.tag = "Open")
           /\ ~(result.some /\ result.v.ok /\ result.v.v.tag = "Open")
           /\ OpenerSpawns = {}

\* The opener is not started for a blank line.
C18_NoOpenerForBlankLine == BlankLine => OpenerSpawns = {}

----------------------------------------------------------------------------
(* Claims about the active location.                                       *)

\* Where main is once location_name has been assigned: after resolution,
\* in the loop and in the picker the loop calls.
Resolved ==
    \/ pc \in {"resolved", "loop", "source", "fzf", "read", "wait", "match"}
    \/ pc \in {"menu", "menu_wait"} /\ menu_caller = "loop"

\* The active location name is a key of the configuration.
ActiveNameIsKey ==
    /\ Resolved => location_name.some
    /\ location_name.some => ContainsKey(config, location_name.v)
    /\ error # LookupFailed

\* C19: after every resolution and every pick, and at the start of every
\* turn of the loop, the active location name is a key of the configuration,
\* so looking it up never fails; the configuration is never modified.
C19_ActiveLocationIsConfigured == []ActiveNameIsKey /\ [][config' = config]_vars

\* The loop starts a turn on a location the picker returned, other than the
\* first one.
C19_Witness ==
    /\ pc = "source"
    /\ menus > 0
    /\ location_name.some
    /\ location_name.v # Keys(config)[1]
    /\ CurrentLocation.some

----------------------------------------------------------------------------
(* Claims about the totality of line decoding.                             *)

\* The panics that end the line loop of fzf_open.
DecodingAborts ==
    { <<"assertion failed: action.is_none()">>, <<"Error reading line">>,
      <<"slice index starts at 1 but ends at 0">> }

\* C20: whatever the one line the filter printed is, decoding it completes
\* and leaves a pending action; the line loop panics only on a second line
\* or on a read error.
C20_DecoderIsTotal ==
    /\ pc # "loop" /\ Len(fzf_lines) = 1 => action.some
    /\ outcome = "panic" /\ error \in DecodingAborts
         => \/ error = <<"assertion failed: action.is_none()">>
               /\ Len(fzf_lines) = 2
            \/ error = <<"Error reading line">>

====
